---- MODULE Spec2Model ----
(* PDF-to-Word conversion service (vercel-koa2/index.js): the multer upload, *)
(* the three synchronous segments of the async /api/convert handler (split   *)
(* at its two awaits), the history read and the download route.              *)
EXTENDS Integers, Sequences, FiniteSets, TLC

\* ---- bounds ----
MaxAttempts == 2
MaxClock == 1
CapAttempts == 22

\* ---- program constants ----
HistoryLimit == 20

PdfMime == "application/pdf"
MimeTypes == {PdfMime, "text/plain"}
OriginalNames == {"a.pdf"}
\* contents of an uploaded file: parseable by pdf-parse or not
PdfBytes == {"pdf", "corrupt"}
NoFile == [none |-> TRUE]
NoResponse == [kind |-> "none"]
InFlightPc == {"staged", "parsing", "packing"}

\* now: Date.now(); uploads, downloads: the two directories, name -> content;
\* req: the POST /api/convert requests in arrival order, with their position
\* in the handler and their response; log: history variable, the recordings
\* in the order they ran; lastGet: the response of the GET request just served
VARIABLES now, uploads, downloads, conversionHistory, req, log, lastGet

vars == <<now, uploads, downloads, conversionHistory, req, log, lastGet>>

Min(a, b) == IF a < b THEN a ELSE b

\* ---- file names ----
\* file.fieldname + '-' + Date.now() + '-' + Math.round(Math.random()*1E9) + '.pdf'
StorageFilename(field, rnd) == [field |-> field, ts |-> now, rnd |-> rnd, ext |-> ".pdf"]

\* req.file.filename.replace('.pdf', ''): the field name holds no dot, so the
\* first occurrence of '.pdf' is the extension
StripPdf(f) == IF f.ext = ".pdf" THEN [f EXCEPT !.ext = ""] ELSE f

\* `${fileName}.docx`
WordFileName(f) == [StripPdf(f) EXCEPT !.ext = StripPdf(f).ext \o ".docx"]

DownloadUrl(w) == [dir |-> "/downloads", file |-> w]

\* ---- file system ----
ExistsSync(dir, name) == name \in DOMAIN dir

WriteFileSync(dir, name, content) ==
  [n \in DOMAIN dir \cup {name} |-> IF n = name THEN content ELSE dir[n]]

UnlinkSync(dir, name) == [n \in DOMAIN dir \ {name} |-> dir[n]]

\* ---- history ----
\* push instead of unshift
UnshiftPush(h, item) == Append(h, item)

Unshift(h, item) == <<item>> \o h

\* limit off by one
SliceOff(s, a, b) == SubSeq(s, a + 1, Min(b + 1, Len(s)))

Slice(s, a, b) == SubSeq(s, a + 1, Min(b, Len(s)))

OriginalName(r) == IF req[r].originalname = "" THEN "unknown" ELSE req[r].originalname

\* the record names the output without its extension
CompletedItemNoExt(r) ==
  [id |-> ToString(now), originalName |-> req[r].originalname,
   fileName |-> StripPdf(req[r].file), status |-> "completed",
   downloadUrl |-> DownloadUrl(StripPdf(req[r].file)), createdAt |-> now]

CompletedItem(r) ==
  [id |-> ToString(now), originalName |-> req[r].originalname,
   fileName |-> WordFileName(req[r].file), status |-> "completed",
   downloadUrl |-> DownloadUrl(WordFileName(req[r].file)), createdAt |-> now]

FailedItem(r, msg) ==
  [id |-> ToString(now), originalName |-> OriginalName(r),
   status |-> "failed", error |-> msg, createdAt |-> now]

\* assignment instead of unshift
CatchHistoryReset(h, r, msg) == <<FailedItem(r, msg)>>

CatchHistory(h, r, msg) == Unshift(h, FailedItem(r, msg))

\* history variable: the recordings in the order they happened
InFlight == {q \in 1..Len(req) : req[q].pc \in InFlightPc}

LogEntry(r, item) == [by |-> r, rec |-> item]

\* ---- requests ----
\* Math.round(Math.random() * 1E9): the values matter only through being equal
\* or different, so the k-th stored upload draws from the values already
\* drawn and one new value
UsedRands == {req[q].file.rnd : q \in {p \in 1..Len(req) : req[p].file # NoFile}}
Rands == UsedRands \cup {Cardinality(UsedRands)}

NoBuffer == "none"

NewRequest(mime, oname) ==
  [mimetype |-> mime, originalname |-> oname,
   file |-> NoFile, pc |-> "idle", buffer |-> NoBuffer, status |-> 0, error |-> "none"]

\* the response ends the handler; its locals (the buffer) are dropped
Respond(q, status, err) ==
  [q EXCEPT !.pc = "done", !.buffer = NoBuffer, !.status = status, !.error = err]

Init ==
  /\ now = 0
  /\ uploads = << >>
  /\ downloads = << >>
  /\ conversionHistory = << >>
  /\ req = << >>
  /\ log = << >>
  /\ lastGet = NoResponse

Tick ==
  /\ now < MaxClock
  /\ now' = now + 1
  /\ lastGet' = NoResponse
  /\ UNCHANGED <<uploads, downloads, conversionHistory, req, log>>

\* multer fileFilter rejects the upload; the error reaches the error middleware
UploadRejected(max, mime, oname) ==
  /\ Len(req) < max
  /\ mime # PdfMime
  /\ req' = Append(req, Respond(NewRequest(mime, oname), 500, "filter"))
  /\ lastGet' = NoResponse
  /\ UNCHANGED <<now, uploads, downloads, conversionHistory, log>>

\* no 'pdf' field in the form: req.file is undefined
UploadMissing(max) ==
  /\ Len(req) < max
  /\ req' = Append(req, Respond(NewRequest("", ""), 400, "nofile"))
  /\ lastGet' = NoResponse
  /\ UNCHANGED <<now, uploads, downloads, conversionHistory, log>>

\* multer diskStorage writes the upload under the generated name
UploadStored(max, oname, bytes, rnd) ==
  LET f == StorageFilename("pdf", rnd)
      r == Len(req) + 1
  IN /\ Len(req) < max
     /\ uploads' = WriteFileSync(uploads, f, bytes)
     /\ req' = Append(req, [NewRequest(PdfMime, oname) EXCEPT !.file = f, !.pc = "staged"])
     /\ lastGet' = NoResponse
     /\ UNCHANGED <<now, downloads, conversionHistory, log>>

\* the catch block: record the failure, answer 500
Catch(r, msg) ==
  /\ conversionHistory' = CatchHistory(conversionHistory, r, msg)
  /\ log' = Append(log, LogEntry(r, FailedItem(r, msg)))
  /\ req' = [req EXCEPT ![r] = Respond(@, 500, msg)]

\* handler entry up to the first await: readFileSync, pdfParse called
ConvertRead(r, ioErr) ==
  /\ req[r].pc = "staged"
  /\ lastGet' = NoResponse
  /\ UNCHANGED <<now, uploads, downloads>>
  /\ IF ioErr \/ ~ExistsSync(uploads, req[r].file)
       THEN Catch(r, "read")
       ELSE /\ req' = [req EXCEPT ![r].pc = "parsing", ![r].buffer = uploads[req[r].file]]
            /\ UNCHANGED <<conversionHistory, log>>

\* pdfParse settles; the document is built and Packer.toBuffer called
ConvertParse(r, genErr) ==
  /\ req[r].pc = "parsing"
  /\ lastGet' = NoResponse
  /\ UNCHANGED <<now, uploads, downloads>>
  /\ IF req[r].buffer = "corrupt"
       THEN Catch(r, "extract")
       ELSE IF genErr
         THEN Catch(r, "generate")
         ELSE /\ req' = [req EXCEPT ![r].pc = "packing"]
              /\ UNCHANGED <<conversionHistory, log>>

\* Packer.toBuffer settles; write the output, record, unlink the input, respond
ConvertPack(r, packErr, writeErr, unlinkErr) ==
  LET w == WordFileName(req[r].file)
      item == CompletedItem(r)
      h1 == Unshift(conversionHistory, item)
      l1 == Append(log, LogEntry(r, item))
  IN /\ req[r].pc = "packing"
     /\ lastGet' = NoResponse
     /\ now' = now
     /\ IF packErr
          THEN Catch(r, "serialize") /\ UNCHANGED <<uploads, downloads>>
          ELSE IF writeErr
            THEN Catch(r, "write") /\ UNCHANGED <<uploads, downloads>>
            ELSE /\ downloads' = WriteFileSync(downloads, w, "docx")
                 /\ IF unlinkErr \/ ~ExistsSync(uploads, req[r].file)
                      THEN /\ conversionHistory' = CatchHistory(h1, r, "unlink")
                           /\ log' = Append(l1, LogEntry(r, FailedItem(r, "unlink")))
                           /\ req' = [req EXCEPT ![r] = Respond(@, 500, "unlink")]
                           /\ UNCHANGED uploads
                      ELSE /\ conversionHistory' = h1
                           /\ log' = l1
                           /\ uploads' = UnlinkSync(uploads, req[r].file)
                           /\ req' = [req EXCEPT ![r] = Respond(@, 200, "none")]

GetHistory ==
  /\ lastGet' = [kind |-> "history", status |-> 200,
                 body |-> Slice(conversionHistory, 0, HistoryLimit)]
  /\ UNCHANGED <<now, uploads, downloads, conversionHistory, req, log>>

\* the output names of the uploads stored so far: a client may ask for one
\* before, after or without its output having been written
KnownNames == {WordFileName(req[q].file) : q \in {p \in 1..Len(req) : req[p].file # NoFile}}

Download(filename) ==
  /\ lastGet' = [kind |-> "download", filename |-> filename,
                 status |-> IF ExistsSync(downloads, filename) THEN 200 ELSE 404]
  /\ UNCHANGED <<now, uploads, downloads, conversionHistory, req, log>>

\* the upload and conversion steps of POST /api/convert, and the clock
NextConvert ==
  \/ Tick
  \/ \E mime \in MimeTypes, oname \in OriginalNames : UploadRejected(MaxAttempts, mime, oname)
  \/ UploadMissing(MaxAttempts)
  \/ \E oname \in OriginalNames, bytes \in PdfBytes, rnd \in Rands :
       UploadStored(MaxAttempts, oname, bytes, rnd)
  \/ \E r \in 1..Len(req), e \in BOOLEAN : ConvertRead(r, e)
  \/ \E r \in 1..Len(req), e \in BOOLEAN : ConvertParse(r, e)
  \/ \E r \in 1..Len(req), e1, e2, e3 \in BOOLEAN : ConvertPack(r, e1, e2, e3)

Next ==
  \/ NextConvert
  \/ GetHistory
  \/ \E f \in KnownNames : Download(f)

Spec == Init /\ [][Next]_vars

\* The GET routes change no program state, so the conversions can be checked
\* without them, and each GET route on its own.
SpecConvert == Init /\ [][NextConvert]_vars

NextHistory == NextConvert \/ GetHistory

SpecHistory == Init /\ [][NextHistory]_vars

NextDownload == NextConvert \/ \E f \in KnownNames : Download(f)

SpecDownload == Init /\ [][NextDownload]_vars

\* sequential successful conversions, enough of them to pass the read limit
NextCap ==
  \/ Tick
  \/ \E oname \in OriginalNames :
       InFlight = {} /\ UploadStored(CapAttempts, oname, "pdf", 0)
  \/ \E r \in 1..Len(req) : ConvertRead(r, FALSE)
  \/ \E r \in 1..Len(req) : ConvertParse(r, FALSE)
  \/ \E r \in 1..Len(req) : ConvertPack(r, FALSE, FALSE, FALSE)
  \/ GetHistory

SpecCap == Init /\ [][NextCap]_vars

\* ---- properties ----
Attempts == 1..Len(req)
RecordsBy(r) == {k \in 1..Len(log) : log[k].by = r}
Staged(r) == req[r].file # NoFile
Done(r) == req[r].pc = "done"

\* C1: GET /api/history lists the records most-recent-first: index i of the
\* response holds the i-th most recently recorded record, whatever mix of
\* successful, failed and overlapping conversions produced them.
HistoryNewestFirst ==
  lastGet.kind = "history" =>
    /\ Len(lastGet.body) <= Len(log)
    /\ \A i \in 1..Len(lastGet.body) : lastGet.body[i] = log[Len(log) + 1 - i].rec

HistoryNewestFirstWitness ==
  /\ lastGet.kind = "history"
  /\ Len(lastGet.body) >= 2
  /\ lastGet.body[1].status = "failed"
  /\ lastGet.body[2].status = "completed"
  /\ log[Len(log) - 1].by > log[Len(log)].by

\* C2: GET /api/history returns exactly min(n, 20) records, the most recently
\* recorded ones, and the read leaves all n records stored.
HistoryCapped ==
  lastGet.kind = "history" =>
    /\ Len(lastGet.body) = Min(Len(log), HistoryLimit)
    /\ \A i \in 1..Len(lastGet.body) : lastGet.body[i] = log[Len(log) + 1 - i].rec
    /\ Len(conversionHistory) = Len(log)
    /\ \A i \in 1..Len(log) : conversionHistory[i] = log[Len(log) + 1 - i].rec

HistoryCappedWitness ==
  /\ lastGet.kind = "history"
  /\ Len(log) > HistoryLimit
  /\ Len(lastGet.body) = HistoryLimit
  /\ Len(conversionHistory) > HistoryLimit

\* C3: every conversion attempt on a staged file has added exactly one record
\* by the time it has responded, and the history is exactly the recordings so
\* far, unchanged, newest first.
ExactlyOneRecord ==
  /\ \A r \in Attempts : (Done(r) /\ Staged(r)) => Cardinality(RecordsBy(r)) = 1
  /\ Len(conversionHistory) = Len(log)
  /\ \A i \in 1..Len(log) : conversionHistory[i] = log[Len(log) + 1 - i].rec

\* C4: an upload whose MIME type is not application/pdf is answered with a
\* 400-class status, stages no file, writes no output and records nothing.
NonPdfRejected400 ==
  \A r \in Attempts :
    (Done(r) /\ req[r].mimetype \in MimeTypes \ {PdfMime}) =>
      /\ req[r].status \in 400..499
      /\ ~Staged(r)
      /\ RecordsBy(r) = {}

\* C5: every completed record, and every 200 response of /api/convert, names a
\* file that exists in the output area, and a download of such a name is
\* answered 200, never 404.
DownloadResolves ==
  /\ \A i \in 1..Len(conversionHistory) :
       conversionHistory[i].status = "completed" =>
         ExistsSync(downloads, conversionHistory[i].fileName)
  /\ \A r \in Attempts :
       req[r].status = 200 => ExistsSync(downloads, WordFileName(req[r].file))
  /\ lastGet.kind = "download" =>
       ((\E i \in 1..Len(conversionHistory) :
           /\ conversionHistory[i].status = "completed"
           /\ conversionHistory[i].fileName = lastGet.filename)
        => lastGet.status = 200)

DownloadResolvesWitness ==
  /\ lastGet.kind = "download"
  /\ lastGet.status = 200
  /\ Len(conversionHistory) >= 2
  /\ conversionHistory[Len(conversionHistory)].status = "completed"
  /\ conversionHistory[Len(conversionHistory)].fileName = lastGet.filename
  /\ conversionHistory[Len(conversionHistory)].downloadUrl = DownloadUrl(lastGet.filename)

\* C6: when an attempt whose text extraction succeeded sends its response, its
\* staged input file is gone from the staging area.
ExtractedThen(r) == req[r].pc \in {"parsing", "packing"} /\ req[r].buffer = "pdf"

StagedDeletedAfterExtraction ==
  [][\A r \in Attempts :
       (ExtractedThen(r) /\ req'[r].pc = "done") => ~ExistsSync(uploads', req[r].file)]_vars

\* C7: a conversion failing at text extraction records one failed record and
\* touches nothing else: no file, no other request, no earlier record; every
\* conversion in flight at that moment whose own steps all succeed ends with
\* 200, its output file in the output area and its own completed record.
InHistory(rec) == \E i \in 1..Len(conversionHistory) : conversionHistory[i] = rec

IsolationState ==
  /\ \A r \in Attempts :
       (Done(r) /\ req[r].error = "extract") =>
         \E k \in RecordsBy(r) : log[k].rec.status = "failed" /\ InHistory(log[k].rec)
  /\ \A k \in 1..Len(log) :
       (log[k].rec.status = "failed" /\ log[k].rec.error = "extract") =>
         \A s \in Attempts :
           (Done(s) /\ req[s].error = "none") =>
             /\ req[s].status = 200
             /\ ExistsSync(downloads, WordFileName(req[s].file))
             /\ \E j \in RecordsBy(s) :
                  /\ log[j].rec.status = "completed"
                  /\ log[j].rec.fileName = WordFileName(req[s].file)
                  /\ InHistory(log[j].rec)
             /\ Cardinality(RecordsBy(s)) = 1

IsolationStep ==
  \A r \in Attempts :
    (req[r].pc = "parsing" /\ req'[r].pc = "done" /\ req'[r].error = "extract") =>
      /\ uploads' = uploads
      /\ downloads' = downloads
      /\ \A q \in Attempts \ {r} : req'[q] = req[q]
      /\ Len(conversionHistory') = Len(conversionHistory) + 1
      /\ conversionHistory'[1].status = "failed"
      /\ \A i \in 1..Len(conversionHistory) : conversionHistory'[i + 1] = conversionHistory[i]

FailureIsolation == []IsolationState /\ [][IsolationStep]_vars

FailureIsolationWitness ==
  \E k \in 1..Len(log) :
    /\ log[k].rec.status = "failed"
    /\ log[k].rec.error = "extract"
    /\ InHistory(log[k].rec)
    /\ \E s \in 1..(log[k].by - 1), j \in (k + 1)..Len(log) :
         /\ req[s].status = 200
         /\ log[j].by = s

\* C8: no two records in the history have the same id.
UniqueIds ==
  \A i, j \in 1..Len(conversionHistory) :
    i # j => conversionHistory[i].id # conversionHistory[j].id

\* C9: no two uploads receive the same staged file name, so no two attempts
\* share a staged path or an output path.
UniqueStagedNames ==
  \A r, q \in Attempts :
    (r # q /\ Staged(r) /\ Staged(q)) =>
      /\ req[r].file # req[q].file
      /\ WordFileName(req[r].file) # WordFileName(req[q].file)

\* C10: an attempt whose output was written but whose staged input could not
\* be deleted is answered 200, has its completed record and no failed record.
UnlinkFailureStillSuccess ==
  \A r \in Attempts :
    (Done(r) /\ req[r].error = "unlink") =>
      /\ req[r].status = 200
      /\ \A k \in RecordsBy(r) : log[k].rec.status = "completed"
====
